---- MODULE Spec2Model ----
(***************************************************************************)
(* CustomSVM of Implementiation_of_SVMs_and_Kernel_methods.ipynb: a binary *)
(* SVM trained by a simplified SMO over a precomputed Gram matrix.         *)
(*                                                                         *)
(* Reals are exact rationals <<num, den>> (den > 0, lowest terms): every   *)
(* +, -, *, / of the source is computed exactly, and the rounding of the   *)
(* source's IEEE doubles is not modelled.  With MaxCoord = 1 and the       *)
(* configurations below every value of a run is a dyadic rational that a   *)
(* double holds exactly.  Arrays are sequences; the source's 0-based index *)
(* k is position k+1.  None is <<>> and a stored array a is <<a>>.         *)
(***************************************************************************)
EXTENDS Integers, Sequences, FiniteSets

VARIABLES
    cfg,              \* self.kernel, self.C, self.gamma, self.degree, self.coef0
    alpha,            \* self.alpha
    b,                \* self.b
    X_train,          \* self.X_train
    y_train,          \* self.y_train
    support_vectors,  \* self.support_vectors
    pc,               \* position inside fit, "idle" between calls
    X, y, y_arg,      \* fit's X, its local y (the normalised copy), the caller's y
    max_iter, tol,    \* fit's parameters
    K,                \* fit's Gram matrix
    n_samples,        \* fit's n_samples
    passes,           \* iterations of `for _ in range(max_iter)` begun
    num_changed,      \* fit's num_changed
    i, j,             \* fit's i and j
    Ei, Ej,           \* fit's Ei and Ej
    alpha_i_old, alpha_j_old,
    result,           \* how the last call ended
    fits,             \* calls of fit begun on this instance
    fitted,           \* whether a call of fit on this instance has returned
    mode,             \* the random source: "free", or seeded: "record", "recorded",
                      \* "other" (free again), "replay"
    rng,              \* partner draws a replaying generator will still return
    drawn,            \* partner draws returned while recording
    ref,              \* the recorded fit of the fresh instance
    log               \* the predict / decision_function calls since the last
                      \* call of fit (or since construction), as they ended

model == <<alpha, b, X_train, y_train, support_vectors>>
frame == <<X, y, y_arg, max_iter, tol, K, n_samples, passes, num_changed,
           i, j, Ei, Ej, alpha_i_old, alpha_j_old>>
ghost == <<fits, fitted, mode, rng, drawn, ref, log>>
vars == <<cfg, model, pc, frame, result, ghost>>

-----------------------------------------------------------------------------
(* Bounds of the checked instances.                                        *)
MaxN == 3          \* at most MaxN training samples
Dim == 1           \* feature columns
MaxCoord == 1      \* feature values are 0..MaxCoord
MaxIter == 3       \* max_iter is 1..MaxIter
MaxQuery == 1      \* predict/decision_function get 1..MaxQuery rows
MaxCalls == 3      \* predict/decision_function calls between two calls of fit

-----------------------------------------------------------------------------
(* Exact rational arithmetic for the source's float expressions.  Each     *)
(* operation is applied through a function of its operands, so that an     *)
(* operand is evaluated once however deep the expression.                  *)
AbsInt(n) == IF n < 0 THEN -n ELSE n

RECURSIVE Gcd(_, _)
Gcd(m, n) == IF n = 0 THEN m ELSE Gcd(n, m % n)

Number == Int \X Int
Operands == Number \X Number

\* num / den in lowest terms with a positive denominator
RatF[t \in Number] ==
    LET s == IF t[2] < 0 THEN -1 ELSE 1
        g == Gcd(AbsInt(t[1]), AbsInt(t[2]))
    IN  <<(s * t[1]) \div g, (s * t[2]) \div g>>
Rat(n, d) == RatF[<<n, d>>]

R(k) == <<k, 1>>
\* common factors are divided out before a product is formed
RAddF[t \in Operands] ==
    LET g == Gcd(t[1][2], t[2][2])
    IN  Rat(t[1][1] * (t[2][2] \div g) + t[2][1] * (t[1][2] \div g),
            (t[1][2] \div g) * t[2][2])
RAdd(p, q) == RAddF[<<p, q>>]
RNegF[p \in Number] == <<-p[1], p[2]>>
RNeg(p) == RNegF[p]
RSub(p, q) == RAdd(p, RNeg(q))
RMulF[t \in Operands] ==
    LET g1 == Gcd(AbsInt(t[1][1]), t[2][2])
        g2 == Gcd(AbsInt(t[2][1]), t[1][2])
    IN  Rat((t[1][1] \div g1) * (t[2][1] \div g2),
            (t[1][2] \div g2) * (t[2][2] \div g1))
RMul(p, q) == RMulF[<<p, q>>]
RDivF[t \in Operands] == RMul(t[1], Rat(t[2][2], t[2][1]))
RDiv(p, q) == RDivF[<<p, q>>]
RLtF[t \in Operands] ==
    LET g == Gcd(t[1][2], t[2][2])
    IN  t[1][1] * (t[2][2] \div g) < t[2][1] * (t[1][2] \div g)
RLt(p, q) == RLtF[<<p, q>>]
RLeF[t \in Operands] ==
    LET g == Gcd(t[1][2], t[2][2])
    IN  t[1][1] * (t[2][2] \div g) <= t[2][1] * (t[1][2] \div g)
RLe(p, q) == RLeF[<<p, q>>]
RAbsF[p \in Number] == <<AbsInt(p[1]), p[2]>>
RAbs(p) == RAbsF[p]
RMaxF[t \in Operands] == IF RLt(t[1], t[2]) THEN t[2] ELSE t[1]
RMax(p, q) == RMaxF[<<p, q>>]
RMinF[t \in Operands] == IF RLt(t[2], t[1]) THEN t[2] ELSE t[1]
RMin(p, q) == RMinF[<<p, q>>]

RECURSIVE RPow(_, _)
RPow(p, e) == IF e = 0 THEN R(1) ELSE RMul(p, RPow(p, e - 1))

RECURSIVE Pow2(_)
Pow2(e) == IF e = 0 THEN 1 ELSE 2 * Pow2(e - 1)

\* np.clip(a, lo, hi)
Clip(a, lo, hi) == RMin(RMax(a, lo), hi)

\* np.sign on one entry: -1.0, 0.0 or 1.0
SignF[p \in Number] == IF p[1] < 0 THEN R(-1) ELSE IF p[1] = 0 THEN R(0) ELSE R(1)
Sign(p) == SignF[p]

\* the literal 1e-5 of lines 522 and 549, and the default tol=1e-3
Threshold == <<1, 100000>>
DefaultTol == <<1, 1000>>

None == <<>>
Some(a) == <<a>>

-----------------------------------------------------------------------------
(* Vectors and matrices.                                                   *)
RECURSIVE SumTo(_, _)
SumTo(f, n) == IF n = 0 THEN R(0) ELSE RAdd(SumTo(f, n - 1), f[n])

RECURSIVE IntSumTo(_, _)
IntSumTo(f, n) == IF n = 0 THEN 0 ELSE IntSumTo(f, n - 1) + f[n]

\* u @ v of two feature rows
Dot(u, v) == IntSumTo([c \in 1..Len(u) |-> u[c] * v[c]], Len(u))

\* a[mask] : the entries of a at the positions where mask holds, in order
RECURSIVE Select(_, _, _)
Select(a, mask, n) ==
    IF n = 0 THEN <<>>
    ELSE IF mask[n] THEN Append(Select(a, mask, n - 1), a[n])
         ELSE Select(a, mask, n - 1)

-----------------------------------------------------------------------------
(* CustomSVM._kernel                                                       *)
Raise(e) == [exc |-> e, val |-> <<>>]
Return(v) == [exc |-> "", val |-> v]

\* KernelEntry with coef0 added after the power
KernelEntry_CoefOutside(c, u, v) ==
    IF c.kernel = "linear" THEN R(Dot(u, v))
    ELSE IF c.kernel = "poly"
    THEN RAdd(RPow(RMul(c.gamma, R(Dot(u, v))), c.degree), c.coef0)
    ELSE LET dists == Dot(u, u) + Dot(v, v) - 2 * Dot(u, v)
         IN  <<1, Pow2(c.gamma[1] * dists)>>

\* KernelEntry with the rbf distance taking both squared norms from X1
KernelEntry_LeftNorms(c, u, v) ==
    IF c.kernel = "linear" THEN R(Dot(u, v))
    ELSE IF c.kernel = "poly"
    THEN RPow(RAdd(RMul(c.gamma, R(Dot(u, v))), c.coef0), c.degree)
    ELSE LET dists == Dot(u, u) + Dot(u, u) - 2 * Dot(u, v)
         IN  <<1, Pow2(c.gamma[1] * dists)>>

\* one entry of the kernel matrix for rows u (of X1) and v (of X2)
KernelEntry(c, u, v) ==
    IF c.kernel = "linear" THEN R(Dot(u, v))
    ELSE IF c.kernel = "poly"
    THEN RPow(RAdd(RMul(c.gamma, R(Dot(u, v))), c.coef0), c.degree)
    ELSE \* rbf, with gamma = c.gamma * ln 2: exp(-gamma * dists) = 2 ^ -(c.gamma * dists)
         LET dists == Dot(u, u) + Dot(v, v) - 2 * Dot(u, v)
         IN  <<1, Pow2(c.gamma[1] * dists)>>

\* _kernel with the linear kernel as the fallback of its last branch
_kernel_Fallback(c, X1, X2) ==
    IF X2 = None
    THEN Raise(IF c.kernel = "rbf" THEN "TypeError" ELSE "AttributeError")
    ELSE Return([r \in 1..Len(X1) |->
                   [s \in 1..Len(X2[1]) |->
                       IF c.kernel \in {"poly", "rbf"}
                       THEN KernelEntry(c, X1[r], X2[1][s])
                       ELSE R(Dot(X1[r], X2[1][s]))]])

_kernel(c, X1, X2) ==
    IF c.kernel = "linear" \/ c.kernel = "poly"
    THEN IF X2 = None
         THEN Raise("AttributeError")    \* None.T
         ELSE Return([r \in 1..Len(X1) |->
                        [s \in 1..Len(X2[1]) |-> KernelEntry(c, X1[r], X2[1][s])]])
    ELSE IF c.kernel = "rbf"
    THEN IF X2 = None
         THEN Raise("TypeError")         \* None ** 2
         ELSE Return([r \in 1..Len(X1) |->
                        [s \in 1..Len(X2[1]) |-> KernelEntry(c, X1[r], X2[1][s])]])
    ELSE Raise("ValueError")             \* "Unknown kernel type"

-----------------------------------------------------------------------------
(* The inputs of the checked instances.                                    *)
Kernels == {"linear", "poly", "rbf", "polynomial", "unknown"}

\* C = 2.0 ** -17, a regularisation parameter below the 1e-5 of line 522
SmallC == <<1, 131072>>

\* CustomSVM(kernel=k, degree=2, gamma=g) with the defaults C=1.0 and coef0=1.0;
\* g is 2.0 for poly and 1.0 * ln 2 for rbf.  Also CustomSVM(kernel='poly',
\* degree=0, gamma=2.0) and CustomSVM(kernel='linear', C=2.0 ** -17).
Configs ==
    {[kernel |-> k, C |-> R(1), gamma |-> IF k = "poly" THEN R(2) ELSE R(1),
      degree |-> 2, coef0 |-> R(1)] : k \in Kernels}
    \cup {[kernel |-> "poly", C |-> R(1), gamma |-> R(2), degree |-> 0, coef0 |-> R(1)],
          [kernel |-> "linear", C |-> SmallC, gamma |-> R(1), degree |-> 2, coef0 |-> R(1)]}

Rows == [1..Dim -> 0..MaxCoord]
Labels == {-1, 0, 1, 2}
Matrices(m) == [1..m -> Rows]
LabelVectors(m, L) == [1..m -> L]
Queries == UNION {Matrices(m) : m \in 1..MaxQuery}

-----------------------------------------------------------------------------
(* CustomSVM.__init__                                                      *)
NoFrame ==
    /\ X = None /\ y = None /\ y_arg = None /\ max_iter = 0 /\ tol = R(0)
    /\ K = None /\ n_samples = 0 /\ passes = 0 /\ num_changed = 0
    /\ i = 0 /\ j = 0 /\ Ei = R(0) /\ Ej = R(0)
    /\ alpha_i_old = R(0) /\ alpha_j_old = R(0)

NoFrame1 ==
    /\ X' = None /\ y' = None /\ y_arg' = None /\ max_iter' = 0 /\ tol' = R(0)
    /\ K' = None /\ n_samples' = 0 /\ passes' = 0 /\ num_changed' = 0
    /\ i' = 0 /\ j' = 0 /\ Ei' = R(0) /\ Ej' = R(0)
    /\ alpha_i_old' = R(0) /\ alpha_j_old' = R(0)

Init ==
    /\ cfg \in Configs
    /\ alpha = None
    /\ b = R(0)
    /\ X_train = None
    /\ y_train = None
    /\ support_vectors = None
    /\ pc = "idle"
    /\ NoFrame
    /\ result = [call |-> "__init__", args |-> <<>>, exc |-> "", val |-> <<>>]
    /\ fits = 0
    /\ fitted = FALSE
    /\ mode = "free"
    /\ rng = <<>>
    /\ drawn = <<>>
    /\ ref = None
    /\ log = <<>>

-----------------------------------------------------------------------------
(* CustomSVM.fit                                                           *)

\* lines 462-463: y = y.copy(); y[y == 0] = -1
NormaliseLabels(ya) == [k \in 1..Len(ya) |-> IF ya[k] = 0 THEN -1 ELSE ya[k]]

\* self.alpha[k], y[k], K[r, s] with the source's 0-based indices
Alpha(k) == alpha[1][k + 1]
Y(k) == y[k + 1]
Kat(r, s) == K[r + 1][s + 1]

\* lines 484, 496: (self.alpha * y) @ K[:, k] + self.b - y[k]
Error(k) ==
    RSub(RAdd(SumTo([m \in 1..n_samples |->
                        RMul(RMul(Alpha(m - 1), R(Y(m - 1))), Kat(m - 1, k))],
                    n_samples),
              b),
         R(Y(k)))

\* lines 487-488
ViolatesKKT(k, E) ==
    \/ RLt(RMul(R(Y(k)), E), RNeg(tol)) /\ RLt(Alpha(k), cfg.C)
    \/ RLt(tol, RMul(R(Y(k)), E)) /\ RLt(R(0), Alpha(k))

\* lines 502-507
BoundL ==
    IF Y(i) # Y(j)
    THEN RMax(R(0), RSub(Alpha(j), Alpha(i)))
    ELSE RMax(R(0), RSub(RAdd(Alpha(i), Alpha(j)), cfg.C))

BoundH ==
    IF Y(i) # Y(j)
    THEN RMin(cfg.C, RSub(RAdd(cfg.C, Alpha(j)), Alpha(i)))
    ELSE RMin(cfg.C, RAdd(Alpha(i), Alpha(j)))

\* line 513
Eta == RSub(RSub(RMul(R(2), Kat(i, j)), Kat(i, i)), Kat(j, j))

\* NewAlphaJ without line 519
NewAlphaJ_Unclipped(E_i, E_j) ==
    RSub(Alpha(j), RDiv(RMul(R(Y(j)), RSub(E_i, E_j)), Eta))

\* lines 518-519
NewAlphaJ(E_i, E_j) ==
    Clip(RSub(Alpha(j), RDiv(RMul(R(Y(j)), RSub(E_i, E_j)), Eta)),
         BoundL, BoundH)

\* line 526
NewAlphaI ==
    RAdd(alpha_i_old, RMul(R(Y(i) * Y(j)), RSub(alpha_j_old, Alpha(j))))

\* lines 529-532
B1 ==
    RSub(RSub(RSub(b, Ei),
              RMul(RMul(R(Y(i)), RSub(Alpha(i), alpha_i_old)), Kat(i, i))),
         RMul(RMul(R(Y(j)), RSub(Alpha(j), alpha_j_old)), Kat(i, j)))

B2 ==
    RSub(RSub(RSub(b, Ej),
              RMul(RMul(R(Y(i)), RSub(Alpha(i), alpha_i_old)), Kat(i, j))),
         RMul(RMul(R(Y(j)), RSub(Alpha(j), alpha_j_old)), Kat(j, j)))

\* lines 535-540
NewB ==
    IF RLt(R(0), Alpha(i)) /\ RLt(Alpha(i), cfg.C) THEN B1
    ELSE IF RLt(R(0), Alpha(j)) /\ RLt(Alpha(j), cfg.C) THEN B2
    ELSE RDiv(RAdd(B1, B2), R(2))

\* line 549: self.alpha > 1e-5
SvIndices(a) == [k \in 1..Len(a) |-> RLt(Threshold, a[k])]

\* InitialBias with line 473 left out: the bias of the earlier fit
InitialBias_Stale == b

\* line 473: self.b = 0.0
InitialBias == R(0)

\* lines 461-476: the call, up to the Gram matrix
Fit(Xa, ya, mi, t) ==
    /\ pc = "idle"
    /\ fits' = fits + 1
    /\ log' = <<>>
    /\ UNCHANGED <<cfg, support_vectors, fitted>>
    /\ LET yn == NormaliseLabels(ya)
           kr == _kernel(cfg, Xa, Some(Xa))
       IN  /\ X_train' = Some(Xa)
           /\ y_train' = Some(yn)
           /\ alpha' = Some([k \in 1..Len(Xa) |-> R(0)])
           /\ b' = InitialBias
           /\ IF kr.exc # ""
              THEN /\ pc' = "idle"
                   /\ result' = [call |-> "fit", args |-> <<Xa, ya>>, exc |-> kr.exc, val |-> <<>>]
                   /\ NoFrame1
              ELSE /\ pc' = "loop"
                   /\ result' = [call |-> "fit", args |-> <<Xa, ya>>, exc |-> "running", val |-> <<>>]
                   /\ X' = Xa /\ y' = yn /\ y_arg' = ya
                   /\ max_iter' = mi /\ tol' = t
                   /\ K' = kr.val
                   /\ n_samples' = Len(Xa)
                   /\ UNCHANGED <<passes, num_changed, i, j, Ei, Ej,
                                  alpha_i_old, alpha_j_old>>

\* one fit in the life of an instance, on any training set
FitCall ==
    /\ fits = 0
    /\ mode = "free"
    /\ \E m \in 0..MaxN :
          \E Xs \in Matrices(m), ys \in LabelVectors(m, Labels), mi \in 1..MaxIter :
              Fit(Xs, ys, mi, DefaultTol)
    /\ UNCHANGED <<mode, rng, drawn, ref>>

\* line 479: for _ in range(max_iter)
LoopHead ==
    /\ pc = "loop"
    /\ IF passes < max_iter
       THEN /\ passes' = passes + 1
            /\ num_changed' = 0          \* line 480
            /\ i' = 0                    \* line 482 begins
            /\ pc' = "scan"
       ELSE /\ pc' = "post"
            /\ UNCHANGED <<passes, num_changed, i>>
    /\ UNCHANGED <<cfg, model, X, y, y_arg, max_iter, tol, K, n_samples,
                   j, Ei, Ej, alpha_i_old, alpha_j_old, result, ghost>>

\* lines 482-491: the next i of the pass, its error and the KKT check
Scan ==
    /\ pc = "scan"
    /\ IF i >= n_samples
       THEN /\ pc' = "endpass"
            /\ UNCHANGED <<i, j, Ei>>
       ELSE /\ Ei' = Error(i)
            /\ IF ViolatesKKT(i, Error(i))
               THEN /\ j' = i            \* line 491
                    /\ pc' = "draw"
                    /\ i' = i
               ELSE /\ i' = i + 1
                    /\ pc' = "scan"
                    /\ j' = j
    /\ UNCHANGED <<cfg, model, X, y, y_arg, max_iter, tol, K, n_samples, passes,
                   num_changed, Ej, alpha_i_old, alpha_j_old, result, ghost>>

\* lines 492-493: one np.random.randint(0, n_samples); a seeded generator
\* returns its next recorded value
Draw ==
    /\ pc = "draw"
    /\ \E r \in 0..(n_samples - 1) :
          /\ (mode = "replay" /\ rng # <<>>) => r = Head(rng)
          /\ j' = r
          /\ pc' = IF r = i THEN "draw" ELSE "pair"
          /\ drawn' = IF mode = "record" /\ r # i THEN Append(drawn, r) ELSE drawn
          /\ rng' = IF mode = "replay" /\ rng # <<>> THEN Tail(rng) ELSE rng
    /\ UNCHANGED <<cfg, model, X, y, y_arg, max_iter, tol, K, n_samples, passes,
                   num_changed, i, Ei, Ej, alpha_i_old, alpha_j_old, result,
                   fits, fitted, mode, ref, log>>

\* lines 496-519: the pair's error, bounds and curvature, the two skips, and
\* the clipped write to alpha_j
Pair ==
    /\ pc = "pair"
    /\ Ej' = Error(j)
    /\ alpha_i_old' = Alpha(i)
    /\ alpha_j_old' = Alpha(j)
    /\ IF BoundL = BoundH \/ RLe(R(0), Eta)
       THEN /\ i' = i + 1                \* continue
            /\ pc' = "scan"
            /\ alpha' = alpha
       ELSE /\ alpha' = Some([alpha[1] EXCEPT ![j + 1] = NewAlphaJ(Ei, Error(j))])
            /\ pc' = "wrote_j"
            /\ i' = i
    /\ UNCHANGED <<cfg, b, X_train, y_train, support_vectors, X, y, y_arg,
                   max_iter, tol, K, n_samples, passes, num_changed, j, Ei,
                   result, ghost>>

\* UpdateI with `break` in the place of the `continue` of line 523
UpdateI_SkipBreaks ==
    /\ pc = "wrote_j"
    /\ IF RLt(RAbs(RSub(Alpha(j), alpha_j_old)), Threshold)
       THEN /\ i' = i
            /\ pc' = "endpass"
            /\ alpha' = alpha
       ELSE /\ alpha' = Some([alpha[1] EXCEPT ![i + 1] = NewAlphaI])
            /\ pc' = "wrote_i"
            /\ i' = i
    /\ UNCHANGED <<cfg, b, X_train, y_train, support_vectors, X, y, y_arg,
                   max_iter, tol, K, n_samples, passes, num_changed, j, Ei, Ej,
                   alpha_i_old, alpha_j_old, result, ghost>>

\* lines 522-526: the small-change skip, else the write to alpha_i
UpdateI ==
    /\ pc = "wrote_j"
    /\ IF RLt(RAbs(RSub(Alpha(j), alpha_j_old)), Threshold)
       THEN /\ i' = i + 1                \* continue
            /\ pc' = "scan"
            /\ alpha' = alpha
       ELSE /\ alpha' = Some([alpha[1] EXCEPT ![i + 1] = NewAlphaI])
            /\ pc' = "wrote_i"
            /\ i' = i
    /\ UNCHANGED <<cfg, b, X_train, y_train, support_vectors, X, y, y_arg,
                   max_iter, tol, K, n_samples, passes, num_changed, j, Ei, Ej,
                   alpha_i_old, alpha_j_old, result, ghost>>

\* lines 529-542: the bias and the change counter
UpdateB ==
    /\ pc = "wrote_i"
    /\ b' = NewB
    /\ num_changed' = num_changed + 1
    /\ i' = i + 1
    /\ pc' = "scan"
    /\ UNCHANGED <<cfg, alpha, X_train, y_train, support_vectors, X, y, y_arg,
                   max_iter, tol, K, n_samples, passes, j, Ei, Ej,
                   alpha_i_old, alpha_j_old, result, ghost>>

\* EndPass without the break of line 546
EndPass_NoBreak ==
    /\ pc = "endpass"
    /\ pc' = "loop"
    /\ UNCHANGED <<cfg, model, frame, result, ghost>>

\* lines 545-546
EndPass ==
    /\ pc = "endpass"
    /\ pc' = IF num_changed = 0 THEN "post" ELSE "loop"
    /\ UNCHANGED <<cfg, model, frame, result, ghost>>

\* lines 549-552, and the return
Post ==
    /\ pc = "post"
    /\ LET sv_indices == SvIndices(alpha[1])
       IN  /\ support_vectors' = Some(Select(X, sv_indices, n_samples))
           /\ alpha' = Some(Select(alpha[1], sv_indices, n_samples))
           /\ y_train' = Some(Select(y, sv_indices, n_samples))
    /\ pc' = "idle"
    /\ result' = [result EXCEPT !.exc = ""]
    /\ NoFrame1
    /\ fitted' = TRUE
    /\ IF mode = "record"
       THEN /\ mode' = "recorded"
            /\ ref' = [Xs |-> X, ys |-> y_arg, max_iter |-> max_iter, tol |-> tol,
                       draws |-> drawn,
                       alpha |-> alpha', b |-> b, support_vectors |-> support_vectors',
                       y_train |-> y_train']
            /\ UNCHANGED <<fits, rng, drawn, log>>
       ELSE UNCHANGED <<fits, mode, rng, drawn, ref, log>>
    /\ UNCHANGED <<cfg, b, X_train>>

-----------------------------------------------------------------------------
(* CustomSVM.decision_function and CustomSVM.predict                       *)

\* decision_function returning the bias alone while support_vectors is None
decision_function_Unguarded(Xq) ==
    IF support_vectors = None /\ cfg.kernel \in {"linear", "poly", "rbf"}
    THEN Return([r \in 1..Len(Xq) |-> b])
    ELSE LET kr == _kernel(cfg, Xq, support_vectors)
         IN  IF kr.exc # "" THEN kr
             ELSE Return([r \in 1..Len(Xq) |->
                     RAdd(SumTo([s \in 1..Len(alpha[1]) |->
                                   RMul(RMul(alpha[1][s], R(y_train[1][s])), kr.val[r][s])],
                                Len(alpha[1])),
                          b)])

\* lines 567-569
decision_function(Xq) ==
    LET kr == _kernel(cfg, Xq, support_vectors)
    IN  IF kr.exc # "" THEN kr
        ELSE Return([r \in 1..Len(Xq) |->
                RAdd(SumTo([s \in 1..Len(alpha[1]) |->
                              RMul(RMul(alpha[1][s], R(y_train[1][s])), kr.val[r][s])],
                           Len(alpha[1])),
                     b)])

\* predict with ties counted as the class +1
predict_NoTie(Xq) ==
    LET df == decision_function(Xq)
    IN  IF df.exc # "" THEN df
        ELSE Return([r \in 1..Len(Xq) |-> IF df.val[r][1] < 0 THEN R(-1) ELSE R(1)])

\* line 584
predict(Xq) ==
    LET df == decision_function(Xq)
    IN  IF df.exc # "" THEN df
        ELSE Return([r \in 1..Len(Xq) |-> Sign(df.val[r])])

\* DecisionFunctionCall with the product alpha * y_train formed in place
DecisionFunctionCall_InPlace ==
    /\ pc = "idle"
    /\ Len(log) < MaxCalls
    /\ \E Xq \in Queries :
          LET out == decision_function(Xq)
          IN  /\ result' = [call |-> "decision_function", args |-> <<Xq>>,
                            exc |-> out.exc, val |-> out.val]
              /\ alpha' = IF out.exc # "" THEN alpha
                          ELSE Some([s \in 1..Len(alpha[1]) |->
                                       RMul(alpha[1][s], R(y_train[1][s]))])
    /\ log' = Append(log, result')
    /\ UNCHANGED <<cfg, b, X_train, y_train, support_vectors, pc, frame,
                   fits, fitted, mode, rng, drawn, ref>>

DecisionFunctionCall ==
    /\ pc = "idle"
    /\ Len(log) < MaxCalls
    /\ \E Xq \in Queries :
          LET out == decision_function(Xq)
          IN  result' = [call |-> "decision_function", args |-> <<Xq>>,
                         exc |-> out.exc, val |-> out.val]
    /\ log' = Append(log, result')
    /\ UNCHANGED <<cfg, model, pc, frame, fits, fitted, mode, rng, drawn, ref>>

PredictCall ==
    /\ pc = "idle"
    /\ Len(log) < MaxCalls
    /\ \E Xq \in Queries :
          LET out == predict(Xq)
          IN  result' = [call |-> "predict", args |-> <<Xq>>,
                         exc |-> out.exc, val |-> out.val]
    /\ log' = Append(log, result')
    /\ UNCHANGED <<cfg, model, pc, frame, fits, fitted, mode, rng, drawn, ref>>

-----------------------------------------------------------------------------
FitSteps ==
    \/ LoopHead
    \/ Scan
    \/ Draw
    \/ Pair
    \/ UpdateI
    \/ UpdateB
    \/ EndPass
    \/ Post

Next ==
    \/ FitCall
    \/ FitSteps
    \/ DecisionFunctionCall
    \/ PredictCall

Spec == Init /\ [][Next]_vars

-----------------------------------------------------------------------------
(* Re-fitting: a fresh instance is fitted with its partner draws recorded; *)
(* a second instance is fitted on other data and then on the recorded      *)
(* inputs with the generator replaying the recorded draws.                 *)
\* the compared fits are on two or more samples labelled -1/+1, the fit in
\* between on two samples labelled 0/1
RefitLabels == {-1, 1}
OtherLabels == {0, 1}

InitRefit ==
    /\ cfg \in {c \in Configs : c.kernel \in {"linear", "poly", "rbf"}}
    /\ alpha = None
    /\ b = R(0)
    /\ X_train = None
    /\ y_train = None
    /\ support_vectors = None
    /\ pc = "idle"
    /\ NoFrame
    /\ result = [call |-> "__init__", args |-> <<>>, exc |-> "", val |-> <<>>]
    /\ fits = 0
    /\ fitted = FALSE
    /\ mode = "record"
    /\ rng = <<>>
    /\ drawn = <<>>
    /\ ref = None
    /\ log = <<>>

FitFresh ==
    /\ fits = 0
    /\ mode = "record"
    /\ \E m \in 2..MaxN :
          \E Xs \in Matrices(m), ys \in LabelVectors(m, RefitLabels), mi \in 1..MaxIter :
              Fit(Xs, ys, mi, DefaultTol)
    /\ UNCHANGED <<mode, rng, drawn, ref>>

\* lines 403-414: a second instance with the same configuration
Construct ==
    /\ pc = "idle"
    /\ mode = "recorded"
    /\ alpha' = None
    /\ b' = R(0)
    /\ X_train' = None
    /\ y_train' = None
    /\ support_vectors' = None
    /\ result' = [call |-> "__init__", args |-> <<>>, exc |-> "", val |-> <<>>]
    /\ fits' = 0
    /\ fitted' = FALSE
    /\ mode' = "other"
    /\ UNCHANGED <<cfg, pc, frame, rng, drawn, ref, log>>

FitOther ==
    /\ fits = 0
    /\ mode = "other"
    /\ \E Xs \in Matrices(2), ys \in LabelVectors(2, OtherLabels), mi \in 1..MaxIter :
          Fit(Xs, ys, mi, DefaultTol)
    /\ UNCHANGED <<mode, rng, drawn, ref>>

FitAgain ==
    /\ fits = 1
    /\ mode = "other"
    /\ Fit(ref.Xs, ref.ys, ref.max_iter, ref.tol)
    /\ mode' = "replay"
    /\ rng' = ref.draws
    /\ UNCHANGED <<drawn, ref>>

NextRefit ==
    \/ FitFresh
    \/ Construct
    \/ FitOther
    \/ FitAgain
    \/ FitSteps

SpecRefit == InitRefit /\ [][NextRefit]_vars

\* fit runs to its end once the partner draw returns an index other than i
FairSpec == Init /\ [][Next]_vars /\ WF_vars(FitSteps)

-----------------------------------------------------------------------------
(* Properties.                                                             *)
Supported == {"linear", "poly", "rbf"}
InFit == pc # "idle"
PlusMinusOne(ys) == \A k \in 1..Len(ys) : ys[k] \in {-1, 1}
InBox(a) == RLe(R(0), a) /\ RLe(a, cfg.C)
Values(ys) == {ys[k] : k \in 1..Len(ys)}
FitReturned == pc = "idle" /\ result.call = "fit" /\ result.exc = ""
Asked == result.call \in {"predict", "decision_function"}

\* C1: while fit optimises labels in {-1,+1}, every multiplier is in [0, C],
\* after the write to alpha_j and after the write to alpha_i included.
C1_AlphaInBox ==
    (InFit /\ PlusMinusOne(y)) => \A k \in 1..n_samples : InBox(alpha[1][k])

\* a pair update whose alpha_j was clipped to C and whose alpha_i was written
C1_Witness ==
    /\ pc = "wrote_i" /\ PlusMinusOne(y)
    /\ Alpha(j) = cfg.C /\ alpha_j_old # cfg.C
    /\ Alpha(i) # alpha_i_old

\* C2: with n >= 2 samples fit ends: at most max_iter passes begin, a pass
\* without a counted change is the last one, and the call returns.
C2_Terminates ==
    /\ [](InFit => passes <= max_iter)
    /\ [][(pc = "endpass" /\ num_changed = 0) => pc' = "post"]_vars
    /\ [][(pc = "loop" /\ passes = max_iter) => pc' = "post"]_vars
    /\ (InFit /\ n_samples >= 2) ~> (pc = "idle")

\* fit about to return after a second pass without a change, a third allowed
C2_Witness ==
    /\ pc = "post" /\ n_samples >= 2
    /\ passes = 2 /\ passes < max_iter /\ num_changed = 0

\* C3 (as claimed, for any two-valued labels): when fit has returned, every
\* kept multiplier is in (1e-5, C].
C3_KeptInRange ==
    FitReturned =>
        \A k \in 1..Len(alpha[1]) :
            RLt(Threshold, alpha[1][k]) /\ RLe(alpha[1][k], cfg.C)

\* C4 (as claimed): the labels fit works on are -1 for the smaller and +1 for
\* the larger of the caller's two label values.
C4_LabelsNormalised ==
    (InFit /\ Cardinality(Values(y_arg)) = 2) =>
        \A k \in 1..n_samples :
            y[k] = IF \E m \in 1..n_samples : y_arg[m] > y_arg[k] THEN -1 ELSE 1

\* C5 (as claimed): fit on fewer than 2 samples or on labels with fewer than
\* two distinct values is rejected with InvalidTrainingData.
C5_InvalidDataRejected ==
    (/\ pc = "idle"
     /\ result.call = "fit"
     /\ cfg.kernel \in Supported
     /\ Len(result.args[1]) < 2 \/ Cardinality(Values(result.args[2])) < 2)
    => result.exc = "InvalidTrainingData"

\* C6 (as claimed): before any fit has returned, predict and decision_function
\* end in the error of the absent support vectors, whatever the kernel.
C6_NotFittedError ==
    (Asked /\ ~fitted) => result.exc \in {"AttributeError", "TypeError"}

\* C6 (amended): before any fit has returned, predict and decision_function
\* return nothing: they fail on the absent support vectors when the kernel
\* name is supported, and as an unknown kernel otherwise.
C6_UnfittedFails ==
    (Asked /\ ~fitted) =>
        /\ result.val = <<>>
        /\ result.exc = IF cfg.kernel \in {"linear", "poly"} THEN "AttributeError"
                        ELSE IF cfg.kernel = "rbf" THEN "TypeError"
                        ELSE "ValueError"

\* predict on an instance whose only fit is still to come
C6_Witness ==
    /\ result.call = "predict" /\ ~fitted /\ fits = 0
    /\ cfg.kernel = "rbf" /\ result.exc = "TypeError"

\* C7: with an unsupported kernel name every call that evaluates the kernel
\* fails as an unknown kernel; fit never gets to its loop and never returns.
C7_UnknownKernelFails ==
    cfg.kernel \notin Supported =>
        /\ pc = "idle" /\ ~fitted /\ support_vectors = None
        /\ result.call # "__init__" => (result.exc = "ValueError" /\ result.val = <<>>)

\* a failed fit of the kernel "unknown" on two samples
C7_Witness ==
    /\ cfg.kernel = "unknown" /\ result.call = "fit" /\ result.exc = "ValueError"
    /\ Len(result.args[1]) = 2

\* (gamma * <u, v> + coef0) ^ degree, by integer powers
PolyValue(c, u, v) ==
    Rat((c.gamma[1] * Dot(u, v) * c.coef0[2] + c.coef0[1] * c.gamma[2]) ^ c.degree,
        (c.gamma[2] * c.coef0[2]) ^ c.degree)

\* C8 (as claimed): the kernel name "polynomial" is accepted.
C8_PolynomialAccepted ==
    cfg.kernel = "polynomial" => result.exc # "ValueError"

\* C8 (amended): the kernel name "poly" is accepted, and its Gram matrix is
\* (gamma * <x_r, x_s> + coef0) ^ degree entry by entry.
C8_PolyKernel ==
    cfg.kernel = "poly" =>
        /\ result.exc # "ValueError"
        /\ InFit => \A r, s \in 1..n_samples : K[r][s] = PolyValue(cfg, X[r], X[s])

\* a poly Gram matrix with the entry (2 * 1 + 1) ^ 2
C8_Witness ==
    /\ cfg.kernel = "poly" /\ pc = "scan"
    /\ \E r, s \in 1..n_samples : r # s /\ K[r][s] = R(9)

\* C9: a fit on an instance fitted before on other data ends, for the same
\* inputs and partner draws, as the fit of a fresh instance did.
C9_RefitReplacesState ==
    (mode = "replay" /\ FitReturned) =>
        /\ alpha = ref.alpha
        /\ b = ref.b
        /\ support_vectors = ref.support_vectors
        /\ y_train = ref.y_train

\* a replayed fit of three samples with two partner draws, bias and support
\* vectors, on an instance whose earlier fit was on two samples
C9_Witness ==
    /\ mode = "replay" /\ FitReturned /\ fits = 2
    /\ Len(ref.draws) >= 2 /\ Len(ref.Xs) = 3
    /\ b # R(0) /\ Len(support_vectors[1]) >= 2

\* sum over the kept support vectors of multiplier * label * kernel, plus bias
DecisionValue(u) ==
    RAdd(SumTo([s \in 1..Len(support_vectors[1]) |->
                  RMul(R(y_train[1][s]),
                       RMul(alpha[1][s], KernelEntry(cfg, u, support_vectors[1][s])))],
               Len(support_vectors[1])),
         b)

\* C10: on a fitted model predict returns, row by row, the sign in {-1, 0, 1}
\* of the decision value, also when no support vector was kept.
C10_PredictIsSign ==
    (result.call = "predict" /\ fitted) =>
        /\ result.exc = ""
        /\ Len(result.val) = Len(result.args[1])
        /\ \A r \in 1..Len(result.val) :
              /\ result.val[r] \in {R(-1), R(0), R(1)}
              /\ result.val[r] = R(1) <=> RLt(R(0), DecisionValue(result.args[1][r]))
              /\ result.val[r] = R(-1) <=> RLt(DecisionValue(result.args[1][r]), R(0))

\* predict on a fitted model that kept no support vector but has a bias
C10_Witness ==
    /\ result.call = "predict" /\ fitted
    /\ Len(X_train[1]) >= 2 /\ support_vectors = Some(<<>>)
    /\ b # R(0) /\ result.val # <<>>

\* C11: on a fitted model a call of predict or decision_function leaves the
\* configuration and the model (multipliers, bias, labels, support vectors)
\* as they are, and any two calls of the same function on the same rows end
\* the same, whatever was called in between.
C11_CallsReadOnly ==
    /\ [][(fitted /\ Len(log') > Len(log)) => (model' = model /\ cfg' = cfg)]_vars
    /\ [](fitted =>
            \A p, q \in 1..Len(log) :
                (log[p].call = log[q].call /\ log[p].args = log[q].args)
                    => log[p] = log[q])

\* C12: for a supported kernel the Gram matrix K = kernel(X, X) of fit is
\* symmetric: K[r, s] = K[s, r] for all rows r, s.
C12_GramSymmetric ==
    (InFit /\ cfg.kernel \in Supported) =>
        /\ Len(K) = n_samples
        /\ \A r, s \in 1..n_samples : K[r][s] = K[s][r]

\* an rbf Gram matrix of three rows with entries other than 1 off the diagonal
C12_Witness ==
    /\ pc = "loop" /\ cfg.kernel = "rbf" /\ n_samples = 3
    /\ \E r, s \in 1..n_samples : r # s /\ X[r] # X[s] /\ K[r][s] # R(1)

\* predict, another call on other rows, and predict again on the first rows
\* with the first answer, on a model with support vectors
C11_Witness ==
    /\ fitted /\ Len(log) = 3 /\ Len(support_vectors[1]) >= 2
    /\ log[1].call = "predict" /\ log[1].exc = "" /\ log[1].val[1] # R(0)
    /\ log[2].args # log[1].args /\ log[2].val # log[1].val
    /\ log[3] = log[1]
\* C13 (as claimed): a poly model whose degree is not positive yields no
\* kernel matrix: its fit ends in a configuration error, and no call returns
\* values computed from a kernel matrix.
C13_DegreeRejected ==
    (cfg.kernel = "poly" /\ cfg.degree <= 0) =>
        /\ ~InFit
        /\ result.call = "fit" => result.exc = "ConfigurationError"
        /\ Asked => result.val = <<>>
\* the change of alpha_j written by line 519 is below the 1e-5 of line 522
SmallChange == RLt(RAbs(RSub(Alpha(j), alpha_j_old)), Threshold)

\* C14 (as claimed): the skip of a pair whose alpha_j changed by less than
\* 1e-5 leaves every multiplier, alpha_j included, and the bias as they were
\* before the pair was examined, and counts no change.
C14_SkipIsNoOp ==
    [][(pc = "wrote_j" /\ SmallChange) =>
          /\ alpha' = Some([alpha[1] EXCEPT ![j + 1] = alpha_j_old])
          /\ b' = b
          /\ num_changed' = num_changed]_vars
\* (self.alpha * y).sum() inside fit
DualSum ==
    SumTo([k \in 1..n_samples |-> RMul(Alpha(k - 1), R(Y(k - 1)))], n_samples)

\* C15 (as claimed): with labels in {-1,+1}, Sum_k alpha_k * y_k = 0 holds
\* when the loop starts and at the end of every inner-loop iteration.
C15_DualConstraint ==
    (pc \in {"loop", "scan", "endpass", "post"} /\ PlusMinusOne(y)) =>
        DualSum = R(0)
\* C16 (as claimed): when fit has returned, the model holds the support
\* vectors with their multipliers (all above 1e-5) and labels, and the bias;
\* no field holds training rows other than the support vectors.
C16_OnlySupportSetKept ==
    FitReturned =>
        /\ \A k \in 1..Len(alpha[1]) : RLt(Threshold, alpha[1][k])
        /\ Len(alpha[1]) = Len(support_vectors[1])
        /\ Len(y_train[1]) = Len(support_vectors[1])
        /\ X_train \in {None, support_vectors}
\* lines 509 and 515: L == H, or eta >= 0
SkipsAtPair == BoundL = BoundH \/ RLe(R(0), Eta)

\* C17: a pair skipped for L = H, for eta >= 0 or for a change of alpha_j
\* below 1e-5 leaves fit running in the same pass with the next index and the
\* change counter as it was; past the last index comes the end-of-pass check.
C17_SkipsContinue ==
    /\ [][((pc = "pair" /\ SkipsAtPair) \/ (pc = "wrote_j" /\ SmallChange)) =>
             /\ pc' = "scan" /\ i' = i + 1
             /\ passes' = passes /\ num_changed' = num_changed
             /\ result' = result]_vars
    /\ [][(pc = "scan" /\ i >= n_samples) =>
             (pc' = "endpass" /\ passes' = passes /\ result' = result)]_vars

\* the scan past the last of three indices, with no change counted, after a
\* pair was skipped for a change of alpha_j above 0 and below 1e-5
C17_Witness ==
    /\ pc = "scan" /\ n_samples = 3 /\ i = n_samples /\ num_changed = 0
    /\ SmallChange /\ Alpha(j) # alpha_j_old
    /\ result.exc = "running"
====
